---- MODULE Spec2Model ----
(***************************************************************************)
(* A model of hypothesis/searchstrategy/attrs.py: the inference of a       *)
(* strategy for an attrs attribute (from_attrs_attribute,                  *)
(* types_to_strategy), the two sequence primitives it rests on             *)
(* (ordered_intersection, all_substrings) and the entry point from_attrs.  *)
(*                                                                         *)
(* Python values are records [ty, s]: the name of the value's type and a   *)
(* sequence of naturals (the digits of an int, the characters of a str).   *)
(* A strategy is the sequence of its non-empty alternatives, in the order  *)
(* the alternation tries them; the empty strategy is the empty sequence.   *)
(***************************************************************************)
EXTENDS Integers, Sequences, FiniteSets, TLC

(* ------------------------------ bounds -------------------------------- *)

\* Longest string handed to all_substrings.
MaxStrLen == 3
\* Most sequences handed to ordered_intersection, and their greatest length.
MaxSeqs == 2
MaxSeqLen == 2
\* Most validators inside one and_() validator.
MaxAnd == 2
\* Resolutions of one attribute that a behaviour follows.
MaxRuns == 2

(* ------------------------------ helpers ------------------------------- *)

Range(s) == {s[i] : i \in 1..Len(s)}

SeqsUpTo(S, n) == UNION {[1..k -> S] : k \in 0..n}

\* The sequences that enumerate the set S, each element once.
Orders(S) == {q \in [1..Cardinality(S) -> S] : Range(q) = S}

\* The rearrangements of the sequence s.
Rearrangements(s) ==
  {[i \in 1..Len(s) |-> s[p[i]]] : p \in Orders(1..Len(s))}

RECURSIVE Flatten(_)
Flatten(ss) == IF ss = <<>> THEN <<>> ELSE Head(ss) \o Flatten(Tail(ss))

(* --------------------------- Python values ---------------------------- *)

IntV(n) == [ty |-> "int", s |-> <<n>>]
StrV(cs) == [ty |-> "str", s |-> cs]
FloatV(n) == [ty |-> "float", s |-> <<n>>]
NoneV == [ty |-> "NoneType", s |-> <<>>]

Types == {"int", "str", "float"}

\* The values st.from_type(T) can draw, for the types of the model.
ValuesOf(T) ==
  CASE T = "int" -> {IntV(0), IntV(1), IntV(2), IntV(3)}
    [] T = "str" -> {StrV(cs) : cs \in SeqsUpTo({0, 1}, 2)}
    [] T = "float" -> {FloatV(0), FloatV(1)}
    [] OTHER -> {}

(* --------------------- the strategies library (st) -------------------- *)

Alt(kind, val, elems, typ) ==
  [kind |-> kind, val |-> val, elems |-> elems, typ |-> typ]

nothing == <<>>
just(v) == <<Alt("just", v, <<>>, "")>>
none == <<Alt("none", NoneV, <<>>, "")>>
builds(factory) == <<Alt("builds", factory, <<>>, "")>>
sampled_from(elements) ==
  IF elements = <<>> THEN nothing ELSE <<Alt("sampled", NoneV, elements, "")>>
from_type(T) == <<Alt("from_type", NoneV, <<>>, T)>>
one_of(strats) == Flatten(strats)
Or(a, b) == one_of(<<a, b>>)
is_empty(strat) == strat = <<>>

\* The values one alternative, and a strategy, can draw.
AltValues(a) ==
  CASE a.kind \in {"just", "none", "builds"} -> {a.val}
    [] a.kind = "sampled" -> Range(a.elems)
    [] a.kind = "from_type" -> ValuesOf(a.typ)
    [] OTHER -> {}
Values(strat) == UNION {AltValues(strat[i]) : i \in 1..Len(strat)}

(* ------------------------- ordered_intersection ----------------------- *)

RECURSIVE chain_from_iterable(_)
chain_from_iterable(in_) ==
  IF in_ = <<>> THEN <<>> ELSE Head(in_) \o chain_from_iterable(Tail(in_))

\* reduce(set.intersection, in_, set(in_[0]))
RECURSIVE reduce_intersection(_, _)
reduce_intersection(in_, acc) ==
  IF in_ = <<>> THEN acc
  ELSE reduce_intersection(Tail(in_), acc \cap Range(Head(in_)))

\* A faulty variant of the loop: a yielded element stays in the set.
RECURSIVE oi_loop_keep(_, _)
oi_loop_keep(xs, intersection) ==
  IF xs = <<>> THEN <<>>
  ELSE IF Head(xs) \in intersection
       THEN <<Head(xs)>> \o oi_loop_keep(Tail(xs), intersection)
       ELSE oi_loop_keep(Tail(xs), intersection)

\* for x in chain: if x in intersection: yield x; intersection.remove(x)
RECURSIVE oi_loop(_, _)
oi_loop(xs, intersection) ==
  IF xs = <<>> THEN <<>>
  ELSE IF Head(xs) \in intersection
       THEN <<Head(xs)>> \o oi_loop(Tail(xs), intersection \ {Head(xs)})
       ELSE oi_loop(Tail(xs), intersection)

ordered_intersection(in_) ==
  oi_loop(chain_from_iterable(in_), reduce_intersection(in_, Range(in_[1])))

(* ----------------------------- all_substrings ------------------------- *)

\* A faulty variant of the inner loop: range(len(s) - n - 1), one start offset short.
RECURSIVE substrings_short(_, _)
substrings_short(s, n) ==
  IF n >= Len(s) THEN <<>>
  ELSE [i \in 1..(Len(s) - n - 1) |-> SubSeq(s, i, i + n)]
         \o substrings_short(s, n + 1)

\* The loop over n from index n on: for i in range(len(s) - n): s[i:i+n+1]
RECURSIVE substrings_from(_, _)
substrings_from(s, n) ==
  IF n >= Len(s) THEN <<>>
  ELSE [i \in 1..(Len(s) - n) |-> SubSeq(s, i, i + n)]
         \o substrings_from(s, n + 1)

all_substrings(s) == <<SubSeq(s, 1, 0)>> \o substrings_from(s, 0)

(* ------------------------- attr.Attribute metadata -------------------- *)

\* attrib.default: attr.NOTHING, a literal, or attr.Factory(factory) whose
\* factory returns val.
NoDefault == [kind |-> "NOTHING", val |-> NoneV, takes_self |-> FALSE]
Literal(v) == [kind |-> "literal", val |-> v, takes_self |-> FALSE]
Factory(v, takes_self) == [kind |-> "Factory", val |-> v, takes_self |-> takes_self]

\* A type constraint of instance_of(): one type, or a tuple of types.
OneType(T) == [tuple |-> FALSE, ts |-> <<T>>]
TupleOf(ts) == [tuple |-> TRUE, ts |-> ts]

\* The options of in_(): a str, or an ordered collection of values.
StrOptions(cs) == [isstr |-> TRUE, str |-> StrV(cs), items |-> <<>>]
ListOptions(items) == [isstr |-> FALSE, str |-> StrV(<<>>), items |-> items]

\* attrib.validator: None, or a validator object of attr.validators.
Validator(kind, inner, vs, options, typ) ==
  [kind |-> kind, inner |-> inner, vs |-> vs, options |-> options, typ |-> typ]
NoValidator == Validator("None", <<>>, <<>>, ListOptions(<<>>), OneType(""))
OptionalValidator(v) == Validator("Optional", <<v>>, <<>>, ListOptions(<<>>), OneType(""))
AndValidator(vs) == Validator("And", <<>>, vs, ListOptions(<<>>), OneType(""))
InValidator(options) == Validator("In", <<>>, <<>>, options, OneType(""))
InstanceOfValidator(typ) == Validator("InstanceOf", <<>>, <<>>, ListOptions(<<>>), typ)
OtherValidator == Validator("Other", <<>>, <<>>, ListOptions(<<>>), OneType(""))

\* attrib.type: missing, a class, or an annotation kept in string form.
\* attrib.converter: missing, a class, or a function with or without a
\* return hint.
Declared(kind, typ) == [kind |-> kind, typ |-> typ]
Converter(kind, typ, has_return) ==
  [kind |-> kind, typ |-> typ, has_return |-> has_return]

Attribute(name, default, validator, type, converter) ==
  [name |-> name, default |-> default, validator |-> validator,
   type |-> type, converter |-> converter]

(* --------------------------- types_to_strategy ------------------------ *)

\* A faulty variant: an empty intersection of several type constraints falls
\* through to the declared type.
types_to_strategy_fallthrough(attrib, types, order) ==
  LET type_tuples == [i \in 1..Len(order) |-> order[i].ts]
      common == IF types = {} THEN <<>> ELSE ordered_intersection(type_tuples)
  IN  IF Cardinality(types) = 1
      THEN LET typ == CHOOSE t \in types : TRUE
           IN  IF typ.tuple
               THEN one_of([i \in 1..Len(typ.ts) |-> from_type(typ.ts[i])])
               ELSE from_type(typ.ts[1])
      ELSE IF types # {} /\ common # <<>>
      THEN one_of([i \in 1..Len(common) |-> from_type(common[i])])
      ELSE IF attrib.type.kind = "type" THEN from_type(attrib.type.typ)
      ELSE nothing

\* A faulty variant: the converter is consulted before the declared type.
types_to_strategy_converter_first(attrib, types, order) ==
  IF Cardinality(types) = 1
  THEN LET typ == CHOOSE t \in types : TRUE
       IN  IF typ.tuple
           THEN one_of([i \in 1..Len(typ.ts) |-> from_type(typ.ts[i])])
           ELSE from_type(typ.ts[1])
  ELSE IF types # {}
  THEN LET type_tuples == [i \in 1..Len(order) |-> order[i].ts]
           common == ordered_intersection(type_tuples)
       IN  one_of([i \in 1..Len(common) |-> from_type(common[i])])
  ELSE IF attrib.converter.kind = "type" THEN from_type(attrib.converter.typ)
  ELSE IF attrib.type.kind = "type" THEN from_type(attrib.type.typ)
  ELSE IF attrib.converter.kind = "callable" /\ attrib.converter.has_return
  THEN from_type(attrib.converter.typ)
  ELSE nothing

\* types is the Python set of the type constraints; order is the sequence in
\* which iterating that set yields them, which the set does not fix.
types_to_strategy(attrib, types, order) ==
  IF Cardinality(types) = 1
  THEN LET typ == CHOOSE t \in types : TRUE
       IN  IF typ.tuple
           THEN one_of([i \in 1..Len(typ.ts) |-> from_type(typ.ts[i])])
           ELSE from_type(typ.ts[1])
  ELSE IF types # {}
  THEN LET type_tuples == [i \in 1..Len(order) |-> order[i].ts]
           common == ordered_intersection(type_tuples)
       IN  one_of([i \in 1..Len(common) |-> from_type(common[i])])
  ELSE IF attrib.type.kind = "type" THEN from_type(attrib.type.typ)
  ELSE IF attrib.converter.kind = "type" THEN from_type(attrib.converter.typ)
  ELSE IF attrib.converter.kind = "callable" /\ attrib.converter.has_return
  THEN from_type(attrib.converter.typ)
  ELSE nothing

(* -------------------------- from_attrs_attribute ---------------------- *)

default_component(attrib) ==
  IF attrib.default.kind = "Factory"
  THEN IF ~attrib.default.takes_self THEN builds(attrib.default.val) ELSE nothing
  ELSE IF attrib.default.kind # "NOTHING" THEN just(attrib.default.val)
  ELSE nothing

\* A faulty variant: None is offered whether or not the validator is optional().
null_component_always(attrib) == none

null_component(attrib) ==
  IF attrib.validator.kind = "Optional" THEN none ELSE nothing

\* The validators the loop scans: the validator with an outermost optional()
\* removed, and the members of an and_() in its place.
scanned_validators(attrib) ==
  LET validator == IF attrib.validator.kind = "Optional"
                   THEN attrib.validator.inner[1]
                   ELSE attrib.validator
  IN  IF attrib.validator.kind = "None" THEN <<>>
      ELSE IF validator.kind = "And" THEN validator.vs
      ELSE <<validator>>

IsIn(v) == v.kind = "In"
in_collections(attrib) ==
  LET ins == SelectSeq(scanned_validators(attrib), IsIn)
      collection(v) ==
        IF v.options.isstr
        THEN LET subs == all_substrings(v.options.str.s)
             IN  [i \in 1..Len(subs) |-> StrV(subs[i])]
        ELSE v.options.items
  IN  [i \in 1..Len(ins) |-> collection(ins[i])]

validator_types(attrib) ==
  {v.typ : v \in {w \in Range(scanned_validators(attrib)) : w.kind = "InstanceOf"}}

\* A faulty variant: the type strategy is offered next to the sample.
compose_with_types(attrib, order) ==
  IF in_collections(attrib) # <<>>
  THEN Or(Or(Or(default_component(attrib), null_component(attrib)),
             sampled_from(ordered_intersection(in_collections(attrib)))),
          types_to_strategy(attrib, validator_types(attrib), order))
  ELSE Or(Or(default_component(attrib), null_component(attrib)),
          types_to_strategy(attrib, validator_types(attrib), order))

\* A faulty variant: the sample is tried before the default and None.
compose_sample_first(attrib, order) ==
  IF in_collections(attrib) # <<>>
  THEN Or(sampled_from(ordered_intersection(in_collections(attrib))),
          Or(default_component(attrib), null_component(attrib)))
  ELSE Or(Or(default_component(attrib), null_component(attrib)),
          types_to_strategy(attrib, validator_types(attrib), order))

\* strat = default | null | sample, or default | null | types_to_strategy(..)
compose(attrib, order) ==
  IF in_collections(attrib) # <<>>
  THEN Or(Or(default_component(attrib), null_component(attrib)),
          sampled_from(ordered_intersection(in_collections(attrib))))
  ELSE Or(Or(default_component(attrib), null_component(attrib)),
          types_to_strategy(attrib, validator_types(attrib), order))

Returned(strat) == [raised |-> FALSE, field |-> "", strat |-> strat]
ResolutionFailed(attrib) == [raised |-> TRUE, field |-> attrib.name, strat |-> nothing]

\* A faulty variant: the emptiness check is missing.
from_attrs_attribute_unchecked(attrib, order) == Returned(compose(attrib, order))

from_attrs_attribute(attrib, order) ==
  LET strat == compose(attrib, order)
  IN  IF is_empty(strat) THEN ResolutionFailed(attrib) ELSE Returned(strat)

(* -------------------------------- from_attrs -------------------------- *)

\* kwargs maps a name to [infer |-> TRUE] (the sentinel) or to a strategy.
Infer == [infer |-> TRUE, strat |-> nothing]
Supplied(strat) == [infer |-> FALSE, strat |-> strat]

\* A faulty variant: the entries holding the sentinel are kept.
not_infer_kwargs_all(kwargs) == [k \in DOMAIN kwargs |-> kwargs[k].strat]

\* {k: v for k, v in kwargs.items() if v is not infer}
not_infer_kwargs(kwargs) ==
  [k \in {n \in DOMAIN kwargs : ~kwargs[n].infer} |-> kwargs[k].strat]

\* A faulty variant of the loop: a name the caller supplied keeps the caller's strategy.
RECURSIVE infer_loop_setdefault(_, _, _, _)
infer_loop_setdefault(fields, kw, names, orders) ==
  IF names = <<>> THEN [raised |-> FALSE, field |-> "", kwargs |-> kw]
  ELSE LET name == Head(names)
           r == from_attrs_attribute(fields[name], orders[name])
       IN  IF r.raised
           THEN [raised |-> TRUE, field |-> r.field, kwargs |-> kw]
           ELSE infer_loop_setdefault(fields, kw @@ (name :> r.strat),
                                      Tail(names), orders)

\* for name in to_infer: kwargs[name] = from_attrs_attribute(fields.name);
\* names is the order in which iterating to_infer yields its names.
RECURSIVE infer_loop(_, _, _, _)
infer_loop(fields, kw, names, orders) ==
  IF names = <<>> THEN [raised |-> FALSE, field |-> "", kwargs |-> kw]
  ELSE LET name == Head(names)
           r == from_attrs_attribute(fields[name], orders[name])
       IN  IF r.raised
           THEN [raised |-> TRUE, field |-> r.field, kwargs |-> kw]
           ELSE infer_loop(fields, (name :> r.strat) @@ kw, Tail(names), orders)

\* The strategy returned draws args and the keyword mapping and applies
\* target to them; it is modelled by target, args and the mapping.
from_attrs(target, args, kwargs, to_infer, orders) ==
  LET r == infer_loop(target.fields, not_infer_kwargs(kwargs), to_infer, orders)
  IN  IF r.raised
      THEN [raised |-> TRUE, field |-> r.field, target |-> target.name,
            args |-> <<>>, kwargs |-> <<>>]
      ELSE [raised |-> FALSE, field |-> "", target |-> target.name,
            args |-> args, kwargs |-> r.kwargs]

(* --------------------------------- inputs ----------------------------- *)

Elems == {1, 2, 3}
OIInputs ==
  (SeqsUpTo(SeqsUpTo(Elems, MaxSeqLen), MaxSeqs) \ {<<>>})
    \cup {<< <<1, 3, 2>>, <<2, 1>> >>}

Strings == SeqsUpTo({0, 1}, MaxStrLen)

Defaults ==
  {NoDefault, Literal(IntV(0)), Literal(IntV(1)),
   Factory(IntV(0), FALSE), Factory(IntV(0), TRUE)}

Leaves ==
  {InValidator(ListOptions(<<IntV(1), IntV(2), IntV(3)>>)),
   InValidator(ListOptions(<<IntV(3), IntV(1)>>)),
   InValidator(StrOptions(<<0, 1>>)),
   InValidator(ListOptions(<<StrV(<<1>>), StrV(<<0>>)>>)),
   InstanceOfValidator(OneType("int")),
   InstanceOfValidator(OneType("str")),
   InstanceOfValidator(TupleOf(<<"int", "str">>)),
   InstanceOfValidator(TupleOf(<<"str", "int">>)),
   OtherValidator,
   OptionalValidator(InstanceOfValidator(OneType("int")))}

Unwrapped ==
  Leaves \cup {AndValidator(vs) : vs \in UNION {[1..k -> Leaves] : k \in 2..MaxAnd}}

Validators ==
  {NoValidator} \cup Unwrapped \cup {OptionalValidator(v) : v \in Unwrapped}

DeclaredTypes ==
  {Declared("absent", ""), Declared("type", "float"), Declared("string", "float")}

Converters ==
  {Converter("absent", "", FALSE), Converter("type", "str", FALSE),
   Converter("callable", "int", TRUE), Converter("callable", "", FALSE)}

Attributes ==
  {Attribute("x", d, v, t, c) :
     d \in Defaults, v \in Validators, t \in DeclaredTypes, c \in Converters}

\* The names of the fields of the target classes, and the attributes a field
\* of a target class is drawn from.
Names == {"x", "y", "z"}
FieldKinds(name) ==
  {Attribute(name, Literal(IntV(0)), NoValidator,
             Declared("absent", ""), Converter("absent", "", FALSE)),
   Attribute(name, NoDefault, OtherValidator,
             Declared("string", "float"), Converter("callable", "", FALSE)),
   Attribute(name, NoDefault,
             AndValidator(<<InstanceOfValidator(TupleOf(<<"int", "str">>)),
                            InstanceOfValidator(TupleOf(<<"str", "int">>))>>),
             Declared("absent", ""), Converter("absent", "", FALSE)),
   Attribute(name, NoDefault,
             OptionalValidator(InValidator(ListOptions(<<IntV(1), IntV(2)>>))),
             Declared("type", "float"), Converter("absent", "", FALSE))}
Targets ==
  {[name |-> "Target", fields |-> f] :
     f \in {g \in [Names -> UNION {FieldKinds(n) : n \in Names}] :
              \A n \in Names : g[n] \in FieldKinds(n)}}
ArgsInputs == {<<>>, <<just(IntV(2))>>}
KwargsInputs ==
  UNION {[S -> {Infer, Supplied(just(IntV(3)))}] : S \in SUBSET Names}

NoTarget == [name |-> "", fields |-> <<>>]
NoResult == [raised |-> FALSE, field |-> "", strat |-> nothing]
NoAttribute ==
  Attribute("", NoDefault, NoValidator, Declared("absent", ""),
            Converter("absent", "", FALSE))
NoInstances ==
  [raised |-> FALSE, field |-> "", target |-> "", args |-> <<>>, kwargs |-> <<>>]

(* ------------------------------ state machine ------------------------- *)

VARIABLES
  call,       \* the function this behaviour calls
  pc,         \* "init", then "done" once it has returned or raised
  oi_in,      \* ordered_intersection: its argument in_
  oi_out,     \* ... and the list of what it yielded
  oi_in2,     \* a second call, on the same sequences in another order
  oi_out2,
  sub_s,      \* all_substrings: its argument s
  sub_out,    \* ... and the list of what it yielded
  attrib,     \* from_attrs_attribute: its argument
  runs,       \* ... how many times it has been called on attrib
  result,     \* ... what the last call returned or raised
  first,      \* ... what the first call returned or raised
  target,     \* from_attrs: its arguments
  args,
  kwargs,
  to_infer,
  instances   \* ... and what it returned or raised

vars ==
  <<call, pc, oi_in, oi_out, oi_in2, oi_out2, sub_s, sub_out, attrib, runs,
    result, first, target, args, kwargs, to_infer, instances>>

oi_vars == <<oi_in, oi_out, oi_in2, oi_out2>>
sub_vars == <<sub_s, sub_out>>
attrib_vars == <<attrib, runs, result, first>>
from_vars == <<target, args, kwargs, to_infer, instances>>

Init ==
  /\ call \in {"ordered_intersection", "all_substrings",
               "from_attrs_attribute", "from_attrs"}
  /\ pc = "init"
  /\ oi_out = <<>> /\ oi_in2 = <<>> /\ oi_out2 = <<>>
  /\ sub_out = <<>>
  /\ runs = 0 /\ result = NoResult /\ first = NoResult
  /\ instances = NoInstances
  /\ IF call = "ordered_intersection" THEN oi_in \in OIInputs ELSE oi_in = <<>>
  /\ IF call = "all_substrings" THEN sub_s \in Strings ELSE sub_s = <<>>
  /\ IF call = "from_attrs_attribute" THEN attrib \in Attributes
     ELSE attrib = NoAttribute
  /\ IF call = "from_attrs"
     THEN /\ target \in Targets
          /\ args \in ArgsInputs
          /\ kwargs \in KwargsInputs
          /\ to_infer \in SUBSET Names
     ELSE /\ target = NoTarget /\ args = <<>> /\ kwargs = <<>> /\ to_infer = {}

\* list(ordered_intersection(in_))
OrderedIntersection ==
  /\ call = "ordered_intersection" /\ pc = "init"
  /\ oi_out' = ordered_intersection(oi_in)
  /\ pc' = "done"
  /\ UNCHANGED <<call, oi_in, oi_in2, oi_out2, sub_vars, attrib_vars, from_vars>>

\* list(ordered_intersection(..)) on the same sequences, given in any order
OrderedIntersectionAgain ==
  /\ call = "ordered_intersection" /\ pc = "done"
  /\ \E in_ \in Rearrangements(oi_in) :
       /\ oi_in2' = in_
       /\ oi_out2' = ordered_intersection(in_)
  /\ pc' = "again"
  /\ UNCHANGED <<call, oi_in, oi_out, sub_vars, attrib_vars, from_vars>>

\* list(all_substrings(s))
AllSubstrings ==
  /\ call = "all_substrings" /\ pc = "init"
  /\ sub_out' = all_substrings(sub_s)
  /\ pc' = "done"
  /\ UNCHANGED <<call, sub_s, oi_vars, attrib_vars, from_vars>>

\* from_attrs_attribute(attrib); the set validator_types is iterated in any
\* order of its elements.
FromAttrsAttribute ==
  /\ call = "from_attrs_attribute" /\ runs < MaxRuns
  /\ \E order \in Orders(validator_types(attrib)) :
       /\ result' = from_attrs_attribute(attrib, order)
       /\ first' = IF runs = 0 THEN result' ELSE first
  /\ runs' = runs + 1
  /\ pc' = "done"
  /\ UNCHANGED <<call, attrib, oi_vars, sub_vars, from_vars>>

\* from_attrs(target, args, kwargs, to_infer); the set to_infer and the sets
\* of validator types are iterated in any order of their elements.
FromAttrs ==
  /\ call = "from_attrs" /\ pc = "init"
  /\ \E names \in Orders(to_infer) :
       \E orders \in [Names -> UNION {Orders(validator_types(target.fields[n])) : n \in Names}] :
         /\ \A n \in Names : orders[n] \in Orders(validator_types(target.fields[n]))
         /\ instances' = from_attrs(target, args, kwargs, names, orders)
  /\ pc' = "done"
  /\ UNCHANGED <<call, target, args, kwargs, to_infer, oi_vars, sub_vars, attrib_vars>>

Next ==
  \/ OrderedIntersection
  \/ OrderedIntersectionAgain
  \/ AllSubstrings
  \/ FromAttrsAttribute
  \/ FromAttrs

Spec == Init /\ [][Next]_vars

(* ------------------ what the claims say, in their own terms ----------- *)

NoDuplicates(q) == \A i, j \in 1..Len(q) : q[i] = q[j] => i = j

\* The elements that occur in every set of the family SS.
Common(SS) == {x \in UNION SS : \A S \in SS : x \in S}

FirstIndex(q, x) == CHOOSE i \in 1..Len(q) : q[i] = x /\ \A j \in 1..(i - 1) : q[j] # x

\* out holds exactly the elements common to every sequence of in_, each once,
\* in the order of their first appearance in the concatenation of in_.
IsOrderedIntersection(in_, out) ==
  /\ Range(out) = Common({Range(in_[i]) : i \in 1..Len(in_)})
  /\ NoDuplicates(out)
  /\ \A i, j \in 1..Len(out) :
       i < j => FirstIndex(Flatten(in_), out[i]) < FirstIndex(Flatten(in_), out[j])

\* The place in all_substrings(s), len(s) = n, of the substring of length k
\* that starts at offset i: after the empty string and the shorter ones.
PlaceOf(n, k, i) == 2 + i + (k - 1) * n - ((k - 1) * (k - 2)) \div 2

\* The validator without an outermost optional(), and the validators it
\* stands for: the members of an and_(), or itself.
Inner(v) == IF v.kind = "Optional" THEN v.inner[1] ELSE v
MemberSeq(v) ==
  IF v.kind = "None" THEN <<>>
  ELSE IF Inner(v).kind = "And" THEN Inner(v).vs ELSE <<Inner(v)>>
Members(v) == Range(MemberSeq(v))

\* The set an in_() validator allows: the items, or the substrings of a str.
OptionSet(options) ==
  IF options.isstr
  THEN {StrV(SubSeq(options.str.s, i, j)) :
          i \in 1..(Len(options.str.s) + 1), j \in 0..Len(options.str.s)}
  ELSE Range(options.items)
OptionSeq(options) ==
  IF options.isstr
  THEN [i \in 1..Len(all_substrings(options.str.s)) |->
          StrV(all_substrings(options.str.s)[i])]
  ELSE options.items

InMembers(a) == SelectSeq(MemberSeq(a.validator), IsIn)
InSets(a) == {OptionSet(m.options) : m \in Range(InMembers(a))}
TypeEntries(a) == {m.typ : m \in {w \in Members(a.validator) : w.kind = "InstanceOf"}}
TypeSets(a) == {Range(e.ts) : e \in TypeEntries(a)}

DefaultContributes(a) ==
  \/ a.default.kind = "literal"
  \/ a.default.kind = "Factory" /\ ~a.default.takes_self
NullContributes(a) == a.validator.kind = "Optional"
\* The first fallback source that applies, as a sequence of at most one type.
FallbackType(a) ==
  IF a.type.kind = "type" THEN <<a.type.typ>>
  ELSE IF a.converter.kind = "type" THEN <<a.converter.typ>>
  ELSE IF a.converter.kind = "callable" /\ a.converter.has_return
  THEN <<a.converter.typ>>
  ELSE <<>>
DataContributes(a) ==
  IF InSets(a) # {} THEN Common(InSets(a)) # {}
  ELSE IF TypeEntries(a) # {} THEN Common(TypeSets(a)) # {}
  ELSE FallbackType(a) # <<>>

IsFromType(alt) == alt.kind = "from_type"
IsSampled(alt) == alt.kind = "sampled"
IsNone(alt) == alt.kind = "none"
IsDefault(alt) == alt.kind \in {"just", "builds"}
\* The types a strategy infers values from, in the order of its alternatives.
TypesOf(strat) ==
  LET alts == SelectSeq(strat, IsFromType) IN [i \in 1..Len(alts) |-> alts[i].typ]

Resolved == call = "from_attrs_attribute" /\ runs >= 1

(* -------------------------------- claims ------------------------------ *)

\* C5: all_substrings(s), len(s) = n, yields the empty string first and then
\* s[i:i+k] for k = 1..n and, within each k, i = 0..n-k in ascending order,
\* equal substrings repeated; n(n+1)/2 + 1 items in all, and "010" yields
\* "", "0", "1", "0", "01", "10", "010".
C5_AllSubstrings ==
  (call = "all_substrings" /\ pc = "done") =>
    LET n == Len(sub_s)
    IN  /\ Len(sub_out) = (n * (n + 1)) \div 2 + 1
        /\ sub_out[1] = <<>>
        /\ \A k \in 1..n : \A i \in 0..(n - k) :
             sub_out[PlaceOf(n, k, i)] = SubSeq(sub_s, i + 1, i + k)
        /\ sub_s = <<0, 1, 0>> =>
             sub_out = << <<>>, <<0>>, <<1>>, <<0>>, <<0, 1>>, <<1, 0>>, <<0, 1, 0>> >>

C5_Witness ==
  /\ call = "all_substrings" /\ pc = "done"
  /\ sub_s = <<0, 1, 0>>
  /\ sub_out[2] = <<0>> /\ sub_out[4] = <<0>> /\ Len(sub_out) = 7

\* C4, as claimed: ordered_intersection yields exactly the common elements,
\* each once, in the order of first appearance in the concatenation of the
\* inputs, and the result does not depend on the order in which the input
\* sequences are given.
C4_OrderIndependent ==
  (call = "ordered_intersection" /\ pc = "again") =>
    /\ IsOrderedIntersection(oi_in, oi_out)
    /\ oi_out2 = oi_out

\* C4, amended: ordered_intersection yields exactly the common elements,
\* each once, in the order of first appearance in the concatenation of the
\* inputs as given; giving the same sequences in another order yields the
\* same elements, in the order of first appearance in that other
\* concatenation ([1,3,2], [2,1] yield 1,2).
C4_OrderedIntersection ==
  /\ (call = "ordered_intersection" /\ pc \in {"done", "again"}) =>
       /\ IsOrderedIntersection(oi_in, oi_out)
       /\ oi_in = << <<1, 3, 2>>, <<2, 1>> >> => oi_out = <<1, 2>>
  /\ (call = "ordered_intersection" /\ pc = "again") =>
       /\ IsOrderedIntersection(oi_in2, oi_out2)
       /\ Range(oi_out2) = Range(oi_out)

C4_Witness ==
  /\ call = "ordered_intersection" /\ pc = "again"
  /\ oi_in = << <<1, 3, 2>>, <<2, 1>> >> /\ oi_out = <<1, 2>>
  /\ oi_in2 = << <<2, 1>>, <<1, 3, 2>> >> /\ oi_out2 = <<2, 1>>

\* C1: from_attrs_attribute returns a strategy that can draw at least one
\* value or fails with ResolutionFailed, never returns an empty strategy,
\* and fails exactly when the default component, the null component and the
\* data-driven component (the sample over the intersection of the explicit
\* sets, or the type aggregator's result) are all empty.
C1_NonEmptyOrFails ==
  Resolved =>
    /\ result.raised <=>
         ~(DefaultContributes(attrib) \/ NullContributes(attrib)
             \/ DataContributes(attrib))
    /\ result.raised => result.field = attrib.name
    /\ ~result.raised => ~is_empty(result.strat) /\ Values(result.strat) # {}

C1_Witness ==
  /\ Resolved /\ result.raised
  /\ Cardinality(InSets(attrib)) = 2 /\ Common(InSets(attrib)) = {}
  /\ attrib.default.kind = "Factory" /\ attrib.type.kind = "type"

\* C2: when the (optional-unwrapped) validator holds at least one in_(), the
\* strategy is the alternation, in this order, of the default component, the
\* null component and a sample over the ordered intersection of all the sets
\* (a str replaced by its substrings); instance_of() constraints, the
\* declared type and the converter contribute nothing, also when the
\* intersection is empty.
C2_ExplicitSetsFirst ==
  (Resolved /\ InSets(attrib) # {} /\ ~result.raised) =>
    LET strat == result.strat
        defaults == SelectSeq(strat, IsDefault)
        nulls == SelectSeq(strat, IsNone)
        samples == SelectSeq(strat, IsSampled)
        collections == [i \in 1..Len(InMembers(attrib)) |->
                          OptionSeq(InMembers(attrib)[i].options)]
    IN  /\ strat = defaults \o nulls \o samples
        /\ TypesOf(strat) = <<>>
        /\ defaults = IF ~DefaultContributes(attrib) THEN <<>>
                      ELSE IF attrib.default.kind = "literal"
                      THEN just(attrib.default.val)
                      ELSE builds(attrib.default.val)
        /\ nulls = IF NullContributes(attrib) THEN none ELSE <<>>
        /\ Len(samples) = IF Common(InSets(attrib)) = {} THEN 0 ELSE 1
        /\ \A i \in 1..Len(samples) :
             IsOrderedIntersection(collections, samples[i].elems)

C2_Witness ==
  /\ Resolved /\ ~result.raised
  /\ attrib.default.kind = "literal" /\ attrib.validator.kind = "Optional"
  /\ attrib.type.kind = "type" /\ attrib.converter.kind = "type"
  /\ Len(InMembers(attrib)) = 2
  /\ Len(result.strat) = 3
  /\ result.strat[3].kind = "sampled"
  /\ result.strat[3].elems = <<IntV(3), IntV(1)>>

\* The values the default of a field can supply.
DefaultValues(a) == IF DefaultContributes(a) THEN {a.default.val} ELSE {}
InSetOnly(a) == a.validator.kind = "In" /\ ~a.validator.options.isstr

\* C3, as claimed: for a field whose validator is in_({a, b, c}), with no
\* conflicting type constraint, every value the strategy can draw is a member
\* of {a, b, c}, and each of a, b and c can be drawn.
C3_OnlyMembers ==
  (Resolved /\ InSetOnly(attrib)) =>
    /\ ~result.raised
    /\ Values(result.strat) = Range(attrib.validator.options.items)

\* C3, amended: for such a field every value the strategy can draw is a
\* member of {a, b, c} or the field's default (a literal default, or what a
\* factory that does not take self returns), and each of a, b and c can be
\* drawn; with no such default the values are exactly a, b and c.
C3_MembersOrDefault ==
  (Resolved /\ InSetOnly(attrib)) =>
    /\ ~result.raised
    /\ Values(result.strat) =
         Range(attrib.validator.options.items) \cup DefaultValues(attrib)

C3_Witness ==
  /\ Resolved /\ InSetOnly(attrib) /\ ~result.raised
  /\ attrib.validator.options.items = <<IntV(1), IntV(2), IntV(3)>>
  /\ attrib.default = Literal(IntV(0))
  /\ attrib.type.kind = "type"
  /\ Values(result.strat) = {IntV(0), IntV(1), IntV(2), IntV(3)}

\* C6: with two or more distinct instance_of() entries and no in_(), the
\* type aggregator gives the union over the intersection of the entries as
\* tuples and never falls back to the declared type or the converter; with
\* disjoint types it is empty and, when neither a default nor None
\* contributes, resolution fails, also with a resolvable declared type.
C6_SeveralTypes ==
  (Resolved /\ InSets(attrib) = {} /\ Cardinality(TypeEntries(attrib)) >= 2) =>
    /\ ~result.raised =>
         /\ Range(TypesOf(result.strat)) = Common(TypeSets(attrib))
         /\ NoDuplicates(TypesOf(result.strat))
         /\ SelectSeq(result.strat, IsSampled) = <<>>
    /\ (Common(TypeSets(attrib)) = {} /\ ~DefaultContributes(attrib)
          /\ ~NullContributes(attrib)) => result.raised
    /\ \A order \in Orders(validator_types(attrib)) :
         LET types == TypesOf(types_to_strategy(attrib, validator_types(attrib), order))
             tuples == [i \in 1..Len(order) |-> order[i].ts]
         IN  /\ Len(types) = Len(types_to_strategy(attrib, validator_types(attrib), order))
             /\ IsOrderedIntersection(tuples, types)

C6_Witness ==
  /\ Resolved /\ result.raised
  /\ TypeEntries(attrib) = {OneType("int"), OneType("str")}
  /\ attrib.type = Declared("type", "float")
  /\ attrib.converter.kind = "type"

\* C7: for a field whose validator is optional(instance_of(T)) and that has
\* no default, the values the strategy can draw are None and the values of
\* type T, whatever the declared type and the converter are; None is offered
\* only when the outermost validator is optional().
C7_OptionalInstanceOf ==
  /\ (Resolved /\ attrib.validator.kind = "Optional"
        /\ attrib.validator.inner[1].kind = "InstanceOf"
        /\ attrib.default.kind = "NOTHING") =>
       /\ ~result.raised
       /\ Values(result.strat) =
            {NoneV} \cup UNION {ValuesOf(T) :
                                  T \in Range(attrib.validator.inner[1].typ.ts)}
  /\ (Resolved /\ ~result.raised) =>
       (SelectSeq(result.strat, IsNone) # <<>> <=> attrib.validator.kind = "Optional")

C7_Witness ==
  /\ Resolved /\ ~result.raised
  /\ attrib.validator = OptionalValidator(InstanceOfValidator(TupleOf(<<"int", "str">>)))
  /\ attrib.default.kind = "NOTHING"
  /\ attrib.type.kind = "type" /\ attrib.converter.kind = "callable"
  /\ NoneV \in Values(result.strat) /\ IntV(0) \in Values(result.strat)
  /\ FloatV(0) \notin Values(result.strat)

\* C8: resolution is deterministic: two resolutions of the same field
\* metadata give the same candidates in the same order, on the explicit-set
\* path and on the multi-type path.
C8_Deterministic ==
  (call = "from_attrs_attribute" /\ runs >= 2) => result = first

\* C10: with no instance_of() type, types_to_strategy uses the first source
\* that applies, in this order: the declared type if it is a class, else the
\* converter if it is a class, else the return hint of a callable converter
\* that has one; if none applies it is empty, and no later source is used
\* when an earlier one applies.
C10_FallbackOrder ==
  (Resolved /\ InSets(attrib) = {} /\ TypeEntries(attrib) = {}) =>
    /\ types_to_strategy(attrib, {}, <<>>) = one_of([i \in 1..Len(FallbackType(attrib)) |->
                                                       from_type(FallbackType(attrib)[i])])
    /\ ~result.raised => TypesOf(result.strat) = FallbackType(attrib)
    /\ result.raised => FallbackType(attrib) = <<>>
    /\ (attrib.type.kind # "type" /\ attrib.converter.kind = "absent") =>
         FallbackType(attrib) = <<>>

C10_Witness ==
  /\ Resolved /\ ~result.raised
  /\ TypeEntries(attrib) = {} /\ InSets(attrib) = {}
  /\ attrib.type = Declared("type", "float")
  /\ attrib.converter = Converter("type", "str", FALSE)
  /\ TypesOf(result.strat) = <<"float">>

\* The resolution of the field fails: no component contributes.
Fails(a) ==
  ~(DefaultContributes(a) \/ NullContributes(a) \/ DataContributes(a))
\* The supplied keys whose value is not the sentinel.
Kept == {k \in DOMAIN kwargs : ~kwargs[k].infer}

FromAttrsReturned ==
  (call = "from_attrs" /\ pc = "done") =>
    LET failing == {n \in to_infer : Fails(target.fields[n])}
    IN  /\ instances.raised <=> failing # {}
        /\ instances.raised =>
             /\ instances.field \in failing
             /\ instances.kwargs = <<>> /\ instances.args = <<>>
        /\ ~instances.raised =>
             /\ DOMAIN instances.kwargs = Kept \cup to_infer
             /\ \A n \in to_infer :
                  \E order \in Orders(validator_types(target.fields[n])) :
                    /\ ~from_attrs_attribute(target.fields[n], order).raised
                    /\ instances.kwargs[n] =
                         from_attrs_attribute(target.fields[n], order).strat
             /\ \A k \in Kept \ to_infer : instances.kwargs[k] = kwargs[k].strat
             /\ instances.args = args /\ instances.target = target.name

\* C9: the keyword mapping from_attrs builds has as keys the supplied keys
\* whose value is not the sentinel and every name of to_infer; a name of
\* to_infer maps to the resolver's strategy for that field (replacing a
\* supplied one), every other kept key to the supplied strategy; the caller's
\* mapping is unchanged; and when the resolution of a field of to_infer fails,
\* from_attrs fails with that ResolutionFailed and returns no strategy.
C9_FromAttrs ==
  /\ []FromAttrsReturned
  /\ [][call = "from_attrs" => kwargs' = kwargs]_vars

C9_Witness ==
  /\ call = "from_attrs" /\ pc = "done" /\ ~instances.raised
  /\ \E n \in to_infer \cap Kept : instances.kwargs[n] # kwargs[n].strat
  /\ \E k \in DOMAIN kwargs \ to_infer : kwargs[k].infer
  /\ \E k \in Kept \ to_infer : instances.kwargs[k] = kwargs[k].strat

====
